---- MODULE Spec2Model ----
(***************************************************************************)
(* Model of gift_tracker_app.py: a Streamlit script that keeps a gift      *)
(* ledger (a pandas DataFrame) in st.session_state.gifts.  Every user      *)
(* interaction reruns main() from top to bottom; one rerun is modelled as  *)
(* the sequence of steps  import -> filter -> add -> table  (variable pc). *)
(*                                                                         *)
(* A DataFrame is a sequence of rows; a row maps column names to cells.    *)
(* A cell carries its Python type:  int, float, str, bool, NaN (missing)   *)
(* or inf.  Floats are whole numbers.  Strings are sequences of            *)
(* one-character strings.  Row labels of the ledger are 1..n, the model's  *)
(* counterpart of the RangeIndex 0..n-1 that read_csv and                  *)
(* concat(ignore_index=True) produce.                                      *)
(***************************************************************************)
EXTENDS Integers, Sequences, FiniteSets, TLC

\* ---------------------------------------------------------------- cells

I(n) == [k |-> "int", n |-> n, s |-> <<>>, b |-> FALSE]
F(n) == [k |-> "float", n |-> n, s |-> <<>>, b |-> FALSE]
S(s) == [k |-> "str", n |-> 0, s |-> s, b |-> FALSE]
B(b) == [k |-> "bool", n |-> 0, s |-> <<>>, b |-> b]
NaN == [k |-> "nan", n |-> 0, s |-> <<>>, b |-> FALSE]
Inf == [k |-> "inf", n |-> 0, s |-> <<>>, b |-> FALSE]

COLUMNS == <<"date", "year", "recipient", "occasion", "idea",
             "budget", "purchased", "purchased_cost">>

ColumnSet == {COLUMNS[i] : i \in 1..Len(COLUMNS)}

\* datetime.now().year and date.today().isoformat() of the run
CurrentYear == 2025

Today == <<"2", "0", "2", "5", "-", "1", "1", "-", "0", "5">>

\* ---------------------------------------------------------------- text

Digits == <<"0", "1", "2", "3", "4", "5", "6", "7", "8", "9">>

DigitSet == {Digits[i] : i \in 1..10}

DigitVal(c) == (CHOOSE i \in 1..10 : Digits[i] = c) - 1

\* str.lower() on the model's alphabet
LowerChar(c) ==
    CASE c = "A" -> "a"
      [] c = "B" -> "b"
      [] OTHER -> c

lower(s) == [i \in 1..Len(s) |-> LowerChar(s[i])]

RECURSIVE lstrip(_)
lstrip(s) == IF s # <<>> /\ Head(s) = " " THEN lstrip(Tail(s)) ELSE s

RECURSIVE rstrip(_)
rstrip(s) ==
    IF s # <<>> /\ s[Len(s)] = " " THEN rstrip(SubSeq(s, 1, Len(s) - 1)) ELSE s

\* str.strip()
strip(s) == rstrip(lstrip(s))

\* int(text) as pd.to_numeric reads a string of decimal digits
RECURSIVE ParseNat(_)
ParseNat(s) ==
    IF s = <<>> THEN 0
    ELSE 10 * ParseNat(SubSeq(s, 1, Len(s) - 1)) + DigitVal(s[Len(s)])

IsDigits(s) == s # <<>> /\ \A i \in 1..Len(s) : s[i] \in DigitSet

\* str(n) for n >= 0
RECURSIVE NatText(_)
NatText(n) ==
    IF n < 10 THEN <<Digits[n + 1]>>
    ELSE NatText(n \div 10) \o <<Digits[(n % 10) + 1]>>

\* ------------------------------------------------------------ ensure_df

\* pd.to_numeric(x, errors="coerce") on one cell
to_numeric(c) ==
    CASE c.k = "int" -> c
      [] c.k = "float" -> c
      [] c.k = "bool" -> I(IF c.b THEN 1 ELSE 0)
      [] c.k = "str" -> IF IsDigits(c.s) THEN I(ParseNat(c.s)) ELSE NaN
      [] c.k = "inf" -> Inf
      [] OTHER -> NaN

\* a missing column is added with a scalar default (lines 52-63)
MissingDefault(c) ==
    CASE c \in {"budget", "purchased_cost"} -> F(0)
      [] c = "purchased" -> B(FALSE)
      [] c = "year" -> I(CurrentYear)
      [] c = "date" -> S(Today)
      [] OTHER -> S(<<>>)

AddMissing(df) ==
    [cols |-> ColumnSet,
     rows |-> [i \in 1..Len(df.rows) |->
                 [c \in ColumnSet |->
                    IF c \in df.cols THEN df.rows[i][c] ELSE MissingDefault(c)]]]

\* .fillna("").astype(str) on a cell that is a str or missing
CoerceStr(c) == IF c.k = "nan" THEN S(<<>>) ELSE c

\* to_numeric(errors="coerce").fillna(datetime.now().year); astype(int) follows
FillYear(c) == IF to_numeric(c).k = "nan" THEN I(CurrentYear) ELSE to_numeric(c)

\* astype(int) raises on a non-finite value
YearRaises(c) == FillYear(c).k = "inf"

CoerceYear(c) == I(FillYear(c).n)

\* to_numeric(errors="coerce").fillna(0.0).astype(float)
CoerceFloat(c) == IF to_numeric(c).k = "nan" THEN F(0) ELSE F(to_numeric(c).n)

\* .fillna(False).astype(bool): Python truthiness of what is left
CoerceBool(c) ==
    CASE c.k = "bool" -> c
      [] c.k = "nan" -> B(FALSE)
      [] c.k = "str" -> B(c.s # <<>>)
      [] OTHER -> B(c.n # 0)

CoerceCell(col, c) ==
    CASE col = "date" -> CoerceStr(c)
      [] col = "year" -> CoerceYear(c)
      [] col \in {"budget", "purchased_cost"} -> CoerceFloat(c)
      [] col = "purchased" -> CoerceBool(c)
      [] OTHER -> CoerceStr(c)

CoerceRow(r) == [c \in ColumnSet |-> CoerceCell(c, r[c])]

\* ensure_df(df): ok = FALSE when the call raises
ensure_df(df) ==
    LET full == AddMissing(df)
    IN  IF \E i \in 1..Len(full.rows) : YearRaises(full.rows[i]["year"])
        THEN [ok |-> FALSE, rows |-> <<>>]
        ELSE [ok |-> TRUE,
              rows |-> [i \in 1..Len(full.rows) |-> CoerceRow(full.rows[i])]]

\* --------------------------------------------------------------- filter

\* re.compile(pat) raises: over PatChars only an unclosed "(" does
RegexRaises(pat) == \E i \in 1..Len(pat) : pat[i] = "("

\* re.search(pat, text) finds a match; "." stands for any one character,
\* every other character of PatChars for itself
RegexSearch(pat, text) ==
    \E i \in 0..(Len(text) - Len(pat)) :
        \A j \in 1..Len(pat) : pat[j] = "." \/ pat[j] = text[i + j]

\* Series.str.lower().str.contains(pat, na=False) on one cell (regex=True is
\* the default of str.contains)
str_contains(c, pat) == RegexSearch(pat, lower(c.s))

\* sorted(df["year"].unique()) if not df.empty else [datetime.now().year]
years(df) ==
    IF df = <<>> THEN {CurrentYear} ELSE {df[i]["year"].n : i \in 1..Len(df)}

\* lines 120-126 for the row r
Mask(r, fy, frec, focc, unp) ==
    /\ r["year"].n \in fy
    /\ (frec # <<>> => str_contains(r["recipient"], frec))
    /\ (focc # <<>> => str_contains(r["occasion"], focc))
    /\ (unp => ~r["purchased"].b)

\* lines 121-124 raise
MaskRaises(frec, focc) == RegexRaises(frec) \/ RegexRaises(focc)

\* df.loc[mask].copy() of the first n rows: the rows kept, each with its label
RECURSIVE Loc(_, _, _, _, _, _)
Loc(df, n, fy, frec, focc, unp) ==
    IF n = 0 THEN <<>>
    ELSE IF Mask(df[n], fy, frec, focc, unp)
         THEN Append(Loc(df, n - 1, fy, frec, focc, unp), [idx |-> n, row |-> df[n]])
         ELSE Loc(df, n - 1, fy, frec, focc, unp)

FilterView(df, fy, frec, focc, unp) == Loc(df, Len(df), fy, frec, focc, unp)

\* ----------------------------------------------------------------- KPIs

\* Series.sum() skips NaN
RECURSIVE SumCol(_, _)
SumCol(v, col) ==
    IF v = <<>> THEN 0
    ELSE SumCol(Tail(v), col)
         + (IF Head(v).row[col].k = "nan" THEN 0 ELSE Head(v).row[col].n)

\* fdf.loc[fdf["purchased"]]
PurchasedRows(v) == SelectSeq(v, LAMBDA e : e.row["purchased"].b)

total_budget(v) == SumCol(v, "budget")

\* a variant of total_spent that counts the cost of every row
total_spent_All(v) == SumCol(v, "purchased_cost")

total_spent(v) == SumCol(PurchasedRows(v), "purchased_cost")

Max(a, b) == IF a >= b THEN a ELSE b

Remaining(v) == Max(total_budget(v) - total_spent(v), 0)

KPIs(v) ==
    [budget |-> total_budget(v), spent |-> total_spent(v), remaining |-> Remaining(v)]

\* --------------------------------------------------------------- export

\* the text to_csv writes for one cell
CsvField(c) ==
    CASE c.k = "int" -> NatText(c.n)
      [] c.k = "float" -> NatText(c.n) \o <<".", "0">>
      [] c.k = "bool" -> IF c.b THEN <<"T", "r", "u", "e">>
                         ELSE <<"F", "a", "l", "s", "e">>
      [] c.k = "str" -> c.s
      [] OTHER -> <<>>

\* df.to_csv(index=False): the header line, then one line of fields per row
download_csv(df) ==
    <<COLUMNS>> \o
    [i \in 1..Len(df) |-> [j \in 1..Len(COLUMNS) |-> CsvField(df[i][COLUMNS[j]])]]

\* -------------------------------------------------------------- session

VARIABLES
    gifts,      \* st.session_state.gifts: the ledger, a sequence of rows
    up,         \* the file_uploader's value: NoFile or the uploaded file
    rec_in,     \* text typed into "Recipient contains"
    occ_in,     \* text typed into "Occasion contains"
    show_only_unpurchased,
    year_opts,  \* the options the Year multiselect was built with
    f_year,     \* the years selected in it
    fdf,        \* the filtered view of this rerun: <<[idx, row], ...>>
    kpi,        \* the three metrics shown
    export,     \* the payload of the Export CSV button, NoExport without one
    form,       \* the submitted add form: NoDraft or the draft
    edited,     \* the data_editor's value: the frame it shows, edits applied
    editor_data,\* the frame the data_editor was built with
    msg,        \* what the import surfaced: "", "Imported." or "Upload failed"
    failed,     \* the rerun ended in an uncaught exception
    event,      \* the interaction that started the current rerun
    n_events,   \* how many interactions the session has seen
    pc          \* position in main(): idle, import, filter, add, table

vars == <<gifts, up, rec_in, occ_in, show_only_unpurchased, year_opts, f_year,
          fdf, kpi, export, form, edited, editor_data, msg, failed, event, n_events, pc>>

NoFile == [kind |-> "none", cols |-> {}, rows |-> <<>>]

NoDraft == [submitted |-> FALSE]

NoExport == <<>>

\* bound of the model: the interactions of one session
MaxEvents == 4

\* ------------------------------------------------------ the user's inputs

Row(d, y, r, o, i, bu, p, c) ==
    [date |-> d, year |-> y, recipient |-> r, occasion |-> o, idea |-> i,
     budget |-> bu, purchased |-> p, purchased_cost |-> c]

Table(cols, rows) == [kind |-> "table", cols |-> cols, rows |-> rows]

\* bytes pd.read_csv cannot parse
Garbage == [kind |-> "garbage", cols |-> {}, rows |-> <<>>]

\* a well-formed export of two gifts
FileGood ==
    Table(ColumnSet,
          <<Row(S(Today), I(2024), S(<<"A", "l">>), S(<<"x">>), S(<<"t">>),
                F(5), B(FALSE), F(7)),
            Row(S(Today), I(2025), S(<<"b", ".">>), S(<<"y">>), S(<<"u">>),
                F(10), B(TRUE), F(30))>>)

\* columns missing, text in numeric columns, empty cells
FileRagged ==
    Table({"year", "recipient", "purchased", "purchased_cost", "date"},
          <<[year |-> S(<<"a", "b">>), recipient |-> NaN, purchased |-> S(<<"n", "o">>),
             purchased_cost |-> S(<<"x">>), date |-> NaN],
            [year |-> S(<<"2", "1">>), recipient |-> S(<<"A", "(">>), purchased |-> NaN,
             purchased_cost |-> S(<<"7">>), date |-> S(Today)]>>)

\* a year column holding inf
FileInf ==
    Table({"year", "recipient"},
          <<[year |-> F(2024), recipient |-> S(<<"A", "l">>)],
            [year |-> Inf, recipient |-> S(<<"b">>)]>>)

Uploads == {Garbage, FileGood, FileRagged, FileInf}

\* what the add form can hold on submit: date_input, number_input, text_input
Draft(y, r, o, i, bu, p, c) ==
    [submitted |-> TRUE, dt_val |-> Today, year_val |-> y, recipient |-> r,
     occasion |-> o, idea |-> i, budget |-> bu, purchased |-> p,
     purchased_cost |-> c]

Drafts ==
    {Draft(2025, <<" ", "A", "l", " ">>, <<"B", ".">>, <<>>, 100, FALSE, 0),
     Draft(2024, <<"b", "o">>, <<"a", "b">>, <<" ", "x">>, 50, TRUE, 40),
     Draft(2025, <<"A", "(">>, <<>>, <<"z">>, 10, TRUE, 30)}

\* what can be typed into the two filter boxes
FilterInputs == {<<>>, <<" ", "A", "L">>, <<".">>, <<"(">>}

\* what an inline edit can put into a purchased_cost cell: a number, or
\* nothing (the cell cleared)
EditCosts == {F(30), NaN}

\* ------------------------------------------------------- steps of main()

\* pd.read_csv(up): raises on bytes that are no CSV
read_csv(u) == [ok |-> u.kind = "table", df |-> [cols |-> u.cols, rows |-> u.rows]]

\* the try block of lines 94-99 raises, in read_csv or in ensure_df
ImportRaises(u) == ~read_csv(u).ok \/ ~ensure_df(read_csv(u).df).ok

\* a variant of Imported that stores the table before normalizing it
Imported_Partial(g, u) ==
    IF u = NoFile \/ ~read_csv(u).ok THEN g
    ELSE IF ensure_df(read_csv(u).df).ok THEN ensure_df(read_csv(u).df).rows
         ELSE AddMissing(read_csv(u).df).rows

\* st.session_state.gifts after lines 93-99, from the ledger g and the file u
Imported(g, u) ==
    IF u = NoFile \/ ImportRaises(u) THEN g ELSE ensure_df(read_csv(u).df).rows

ImportMsg(u) ==
    IF u = NoFile THEN ""
    ELSE IF ImportRaises(u) THEN "Upload failed" ELSE "Imported."

\* lines 158-167
new_row(d) ==
    Row(S(d.dt_val), I(d.year_val), S(strip(d.recipient)), S(strip(d.occasion)),
        S(strip(d.idea)), F(d.budget), B(d.purchased), F(d.purchased_cost))

\* line 168: ensure_df(pd.concat([gifts, DataFrame([new_row])], ignore_index=True))
Added(g, d) == ensure_df([cols |-> ColumnSet, rows |-> Append(g, new_row(d))]).rows

\* st.data_editor(fdf, key="editor"): the widget keeps its edits while it is
\* built with the same data, and starts afresh on other data
data_editor(v, e, data) == IF v = data THEN e ELSE v

\* a variant of WriteBack that addresses rows by position (iloc), not label
WriteBack_ByPosition(g, e) ==
    [i \in 1..Len(g) |->
        IF i <= Len(e)
        THEN [g[i] EXCEPT !["purchased"] = e[i].row["purchased"],
                          !["purchased_cost"] = e[i].row["purchased_cost"]]
        ELSE g[i]]

\* line 190: gifts.loc[edited.index, edit_cols] = edited[edit_cols]
WriteBack(g, e) ==
    [i \in 1..Len(g) |->
        IF \E j \in 1..Len(e) : e[j].idx = i
        THEN LET j == CHOOSE j \in 1..Len(e) : e[j].idx = i
             IN  [g[i] EXCEPT !["purchased"] = e[j].row["purchased"],
                              !["purchased_cost"] = e[j].row["purchased_cost"]]
        ELSE g[i]]

\* f_rec, f_occ of lines 115 and 117
f_rec == lower(strip(rec_in))

f_occ == lower(strip(occ_in))

\* lines 92-99
ImportStep ==
    /\ pc = "import"
    /\ gifts' = Imported(gifts, up)
    /\ msg' = ImportMsg(up)
    /\ pc' = "filter"
    /\ UNCHANGED <<n_events, up, rec_in, occ_in, show_only_unpurchased, year_opts, f_year,
                   fdf, kpi, export, form, edited, editor_data, failed, event>>

\* the Year multiselect of line 114: built with other options it is a new
\* widget showing its default, all of them
YearSelection == IF years(gifts) = year_opts THEN f_year ELSE years(gifts)

\* lines 101-136, the filter expressions compile
FilterStep ==
    /\ pc = "filter"
    /\ ~MaskRaises(f_rec, f_occ)
    /\ export' = (IF gifts = <<>> THEN NoExport ELSE download_csv(gifts))
    /\ year_opts' = years(gifts)
    /\ f_year' = YearSelection
    /\ fdf' = FilterView(gifts, YearSelection, f_rec, f_occ, show_only_unpurchased)
    /\ kpi' = KPIs(FilterView(gifts, YearSelection, f_rec, f_occ, show_only_unpurchased))
    /\ pc' = "add"
    /\ UNCHANGED <<n_events, gifts, up, rec_in, occ_in, show_only_unpurchased, form, edited,
                   editor_data, msg, failed, event>>

\* lines 101-124, str.contains raises re.error: the rerun ends there, the
\* submitted form is not processed and the table is not drawn
FilterFails ==
    /\ pc = "filter"
    /\ MaskRaises(f_rec, f_occ)
    /\ export' = (IF gifts = <<>> THEN NoExport ELSE download_csv(gifts))
    /\ year_opts' = years(gifts)
    /\ f_year' = YearSelection
    /\ failed' = TRUE
    /\ form' = NoDraft
    /\ pc' = "idle"
    /\ UNCHANGED <<n_events, gifts, up, rec_in, occ_in, show_only_unpurchased, fdf, kpi,
                   edited, editor_data, msg, event>>

\* lines 157-169
AddStep ==
    /\ pc = "add"
    /\ gifts' = (IF form.submitted THEN Added(gifts, form) ELSE gifts)
    /\ form' = NoDraft
    /\ pc' = "table"
    /\ UNCHANGED <<n_events, up, rec_in, occ_in, show_only_unpurchased, year_opts, f_year,
                   fdf, kpi, export, edited, editor_data, msg, failed, event>>

\* lines 173-190
TableStep ==
    /\ pc = "table"
    /\ IF fdf = <<>>
       THEN /\ edited' = <<>>
            /\ editor_data' = <<>>
            /\ UNCHANGED gifts
       ELSE /\ edited' = data_editor(fdf, edited, editor_data)
            /\ editor_data' = fdf
            /\ gifts' = WriteBack(gifts, data_editor(fdf, edited, editor_data))
    /\ pc' = "idle"
    /\ UNCHANGED <<n_events, up, rec_in, occ_in, show_only_unpurchased, year_opts, f_year,
                   fdf, kpi, export, form, msg, failed, event>>

\* ---------------------------------------------------- user interactions

\* every interaction starts a rerun of main()
Rerun(e) ==
    /\ pc = "idle"
    /\ n_events < MaxEvents
    /\ n_events' = n_events + 1
    /\ pc' = "import"
    /\ event' = e
    /\ failed' = FALSE

UserUpload ==
    \E u \in Uploads :
        /\ Rerun("upload")
        /\ up' = u
        /\ UNCHANGED <<gifts, rec_in, occ_in, show_only_unpurchased, year_opts,
                       f_year, fdf, kpi, export, form, edited, editor_data, msg>>

UserRemoveFile ==
    /\ up # NoFile
    /\ Rerun("remove")
    /\ up' = NoFile
    /\ UNCHANGED <<gifts, rec_in, occ_in, show_only_unpurchased, year_opts,
                   f_year, fdf, kpi, export, form, edited, editor_data, msg>>

UserFilterText ==
    \E r \in FilterInputs, o \in FilterInputs :
        /\ Rerun("filter")
        /\ rec_in' = r
        /\ occ_in' = o
        /\ UNCHANGED <<gifts, up, show_only_unpurchased, year_opts, f_year, fdf,
                       kpi, export, form, edited, editor_data, msg>>

UserFilterUnpurchased ==
    /\ Rerun("filter")
    /\ show_only_unpurchased' = ~show_only_unpurchased
    /\ UNCHANGED <<gifts, up, rec_in, occ_in, year_opts, f_year, fdf, kpi, export,
                   form, edited, editor_data, msg>>

UserFilterYears ==
    \E sel \in SUBSET year_opts :
        /\ Rerun("filter")
        /\ f_year' = sel
        /\ UNCHANGED <<gifts, up, rec_in, occ_in, show_only_unpurchased, year_opts,
                       fdf, kpi, export, form, edited, editor_data, msg>>

\* the form is on the page only when the last run got that far
UserSubmitAdd ==
    \E d \in Drafts :
        /\ ~failed
        /\ Rerun("add")
        /\ form' = d
        /\ UNCHANGED <<gifts, up, rec_in, occ_in, show_only_unpurchased, year_opts,
                       f_year, fdf, kpi, export, edited, editor_data, msg>>

\* an inline edit of one cell of the table on screen
UserEdit ==
    \E j \in 1..Len(edited) :
        /\ ~failed
        /\ Rerun("edit")
        /\ \/ edited' = [edited EXCEPT ![j].row["purchased"] =
                                          B(~edited[j].row["purchased"].b)]
           \/ \E c \in EditCosts :
                  edited' = [edited EXCEPT ![j].row["purchased_cost"] = c]
        /\ UNCHANGED <<gifts, up, rec_in, occ_in, show_only_unpurchased, year_opts,
                       f_year, fdf, kpi, export, form, editor_data, msg>>

\* the state at the start of a rerun of main() with the ledger g in the
\* session and the file u in the uploader
Start(g, u, e) ==
    /\ gifts = g
    /\ up = u
    /\ rec_in = <<>>
    /\ occ_in = <<>>
    /\ show_only_unpurchased = FALSE
    /\ year_opts = {}
    /\ f_year = {}
    /\ fdf = <<>>
    /\ kpi = KPIs(<<>>)
    /\ export = NoExport
    /\ form = NoDraft
    /\ edited = <<>>
    /\ editor_data = <<>>
    /\ msg = ""
    /\ failed = FALSE
    /\ event = e
    /\ n_events = 0
    /\ pc = "import"

\* lines 86-88: st.session_state.gifts = ensure_df(empty_df()), no rows
Init == Start(ensure_df([cols |-> ColumnSet, rows |-> <<>>]).rows, NoFile, "load")

Steps ==
    \/ ImportStep
    \/ FilterStep
    \/ FilterFails
    \/ AddStep
    \/ TableStep

Next ==
    \/ Steps
    \/ UserUpload
    \/ UserRemoveFile
    \/ UserFilterText
    \/ UserFilterUnpurchased
    \/ UserFilterYears
    \/ UserSubmitAdd
    \/ UserEdit

Spec == Init /\ [][Next]_vars

\* ------------------------------------------- the normalizer on its own

RawYears == {I(2024), S(<<"a", "b">>), S(<<"2", "1">>), NaN, Inf}

RawBudgets == {F(5), S(<<"x">>), NaN}

RawCosts == {F(7), NaN}

RawPurchased == {B(TRUE), S(<<"n", "o">>), NaN}

RawDates == {S(Today), NaN}

RawTexts == {S(<<"A", "l">>), NaN}

RawColumnSets == {ColumnSet, ColumnSet \ {"date", "budget"}, {"recipient", "year"}}

\* one-row tables as read_csv returns them
RawTables ==
    {Table(cs, <<[c \in cs |-> Row(d, y, r, S(<<>>), S(<<>>), bu, p, co)[c]]>>) :
        cs \in RawColumnSets, d \in RawDates, y \in RawYears, r \in RawTexts,
        bu \in RawBudgets, p \in RawPurchased, co \in RawCosts}

\* the rerun that follows the upload of a table, on an empty ledger
InitNorm == \E u \in RawTables : Start(<<>>, u, "upload")

NextNorm ==
    \/ ImportStep
    \/ FilterStep
    \/ AddStep
    \/ TableStep

SpecNorm == InitNorm /\ [][NextNorm]_vars

\* =============================================================== claims

\* the fields the inline editor may not touch
FixedFields == {"date", "year", "recipient", "occasion", "idea", "budget"}

SameFixedFields(r1, r2) == \A c \in FixedFields : r1[c] = r2[c]

\* t contains p as a contiguous run of characters
LiteralContains(t, p) ==
    \E i \in 0..(Len(t) - Len(p)) : SubSeq(t, i + 1, i + Len(p)) = p

ViewLabels(v) == {v[j].idx : j \in 1..Len(v)}

\* C1: import is all-or-nothing.  When reading or normalizing the upload
\* fails, the import step leaves the ledger as it was and surfaces an error;
\* otherwise the ledger becomes the normalized upload, whole.
C1_ImportAllOrNothing ==
    [][(pc = "import" /\ up # NoFile) =>
          IF ImportRaises(up)
          THEN gifts' = gifts /\ msg' = "Upload failed"
          ELSE gifts' = ensure_df(read_csv(up).df).rows /\ msg' = "Imported."]_vars

\* a failed import has run on a ledger that holds records
C1_Witness == pc = "filter" /\ msg = "Upload failed" /\ gifts # <<>>

\* C2: Add appends exactly one record, the one built from the draft with
\* its text trimmed, and leaves the n records before it as they were.
C2_AddAppends ==
    [][(pc = "add" /\ form.submitted) =>
          /\ Len(gifts') = Len(gifts) + 1
          /\ \A i \in 1..Len(gifts) : gifts'[i] = gifts[i]
          /\ gifts'[Len(gifts) + 1] = new_row(form)]_vars

\* C3: the write-back changes nothing but purchased and purchased_cost of
\* the records in the filtered view, whatever else the rerun did.
C3_EditScope ==
    [][pc = "table" =>
          /\ Len(gifts') = Len(gifts)
          /\ \A i \in 1..Len(gifts) :
                IF i \in ViewLabels(fdf)
                THEN SameFixedFields(gifts'[i], gifts[i])
                ELSE gifts'[i] = gifts[i]]_vars

\* a rerun started by Add, with a file in the uploader, has written an edit
\* back through a view that shows only part of the ledger
C3_Witness ==
    /\ pc = "idle"
    /\ event = "add"
    /\ up # NoFile
    /\ Len(fdf) + 1 < Len(gifts)
    /\ \E j \in 1..Len(fdf) :
          gifts[fdf[j].idx]["purchased"] # fdf[j].row["purchased"]

\* the record passes the filter as the specification words it
ClaimedMatch(r) ==
    /\ r["year"].n \in f_year
    /\ (f_rec = <<>> \/ LiteralContains(lower(r["recipient"].s), f_rec))
    /\ (f_occ = <<>> \/ LiteralContains(lower(r["occasion"].s), f_occ))
    /\ (~show_only_unpurchased \/ ~r["purchased"].b)

\* C4: the view is exactly the records that pass the filter, in ledger
\* order; no record passes an empty year set.
C4_FilterSubsequence ==
    pc = "add" =>
        /\ \A j \in 1..Len(fdf) : fdf[j].row = gifts[fdf[j].idx]
        /\ \A j \in 1..(Len(fdf) - 1) : fdf[j].idx < fdf[j + 1].idx
        /\ ViewLabels(fdf) = {i \in 1..Len(gifts) : ClaimedMatch(gifts[i])}
        /\ (f_year = {} => fdf = <<>>)

\* C5: the recipient and occasion tests are literal, case-insensitive
\* substring tests, and evaluating them never fails.
C5_LiteralMatch ==
    /\ ~failed
    /\ pc = "add" =>
          \A i \in 1..Len(gifts) :
              (/\ gifts[i]["year"].n \in f_year
               /\ (show_only_unpurchased => ~gifts[i]["purchased"].b))
              => (i \in ViewLabels(fdf) <=>
                    /\ (f_rec # <<>> =>
                          LiteralContains(lower(gifts[i]["recipient"].s), f_rec))
                    /\ (f_occ # <<>> =>
                          LiteralContains(lower(gifts[i]["occasion"].s), f_occ)))

\* the amount a cell adds to a sum (a cleared cell adds nothing)
Amount(c) == IF c.k = "nan" THEN 0 ELSE c.n

RECURSIVE SumOver(_, _, _)
SumOver(v, js, col) ==
    IF js = {} THEN 0
    ELSE LET j == CHOOSE x \in js : TRUE
         IN  Amount(v[j].row[col]) + SumOver(v, js \ {j}, col)

\* C6: the metrics are the budget of the view, the cost of its purchased
\* records only, and their difference, never below zero.
C6_Aggregates ==
    LET all == 1..Len(fdf)
        bought == {j \in all : fdf[j].row["purchased"].b}
        tb == SumOver(fdf, all, "budget")
        ts == SumOver(fdf, bought, "purchased_cost")
    IN  /\ kpi.budget = tb
        /\ kpi.spent = ts
        /\ kpi.remaining = (IF tb - ts > 0 THEN tb - ts ELSE 0)
        /\ kpi.remaining >= 0

\* spend exceeds budget in a view that also holds an unpurchased record
\* with a cost
C6_Witness ==
    /\ pc = "add"
    /\ kpi.spent > kpi.budget
    /\ kpi.remaining = 0
    /\ \E j \in 1..Len(fdf) :
          ~fdf[j].row["purchased"].b /\ Amount(fdf[j].row["purchased_cost"]) > 0

\* the defaults the specification gives each column
ClaimedDefault(col) ==
    CASE col = "date" -> S(Today)
      [] col = "year" -> I(CurrentYear)
      [] col \in {"budget", "purchased_cost"} -> F(0)
      [] col = "purchased" -> B(FALSE)
      [] OTHER -> S(<<>>)

\* the cell can be read as a value of its column's type
Coercible(col, c) ==
    CASE col = "year" -> c.k \in {"int", "float"} \/ (c.k = "str" /\ IsDigits(c.s))
      [] col \in {"budget", "purchased_cost"} ->
            c.k \in {"int", "float"} \/ (c.k = "str" /\ IsDigits(c.s))
      [] col = "purchased" -> c.k = "bool"
      [] OTHER -> c.k = "str"

ClaimedCell(col, c) ==
    IF ~Coercible(col, c) THEN ClaimedDefault(col)
    ELSE CASE col = "year" -> I(to_numeric(c).n)
           [] col \in {"budget", "purchased_cost"} -> F(to_numeric(c).n)
           [] OTHER -> c

ClaimedNormal(u) ==
    [i \in 1..Len(u.rows) |->
        [col \in ColumnSet |->
            IF col \in u.cols THEN ClaimedCell(col, u.rows[i][col])
            ELSE ClaimedDefault(col)]]

\* C7: the normalizer never fails, and gives every missing column and every
\* missing or uncoercible cell its column's default.
C7_NormalizerDefaults ==
    (pc = "filter" /\ up.kind = "table") =>
        /\ msg = "Imported."
        /\ gifts = ClaimedNormal(up)

RowTyped(r) ==
    /\ r["date"].k = "str"
    /\ r["year"].k = "int"
    /\ r["recipient"].k = "str"
    /\ r["occasion"].k = "str"
    /\ r["idea"].k = "str"
    /\ r["budget"].k = "float"
    /\ r["purchased"].k = "bool"
    /\ r["purchased_cost"].k = "float"

\* C8: every record of the ledger has its eight fields with their types.
C8_LedgerTyped == \A i \in 1..Len(gifts) : DOMAIN gifts[i] = ColumnSet /\ RowTyped(gifts[i])

\* C9: the ledger starts empty, and no step of a rerun that the user did
\* not start by uploading a file removes a record or changes one of its
\* fixed fields.
C9_NoLossWithoutImport ==
    /\ gifts = <<>>
    /\ [][event' # "upload" =>
            /\ Len(gifts') >= Len(gifts)
            /\ \A i \in 1..Len(gifts) : SameFixedFields(gifts'[i], gifts[i])]_vars

\* C10: when a rerun has finished, the view, the metrics and the export
\* payload it produced are those of the ledger as the rerun left it.
C10_FreshOutputs ==
    (pc = "idle" /\ ~failed) =>
        /\ fdf = FilterView(gifts, f_year, f_rec, f_occ, show_only_unpurchased)
        /\ kpi = KPIs(FilterView(gifts, f_year, f_rec, f_occ, show_only_unpurchased))
        /\ export = (IF gifts = <<>> THEN NoExport ELSE download_csv(gifts))

====
